---- MODULE Spec2Model ----
(***************************************************************************)
(* Model of datastore_viewer.presentation.ui: the Flask request handlers   *)
(* of the datastore viewer, the key-token decode step they share, the      *)
(* property type checker and the entity JSON builder.                      *)
(*                                                                         *)
(* A Python value is a record of its type name t and its payload, in a     *)
(* field named after the type; text is a sequence of code points, bytes a  *)
(* sequence of numbers 0..255.  A call that raises evaluates to the record *)
(* [t |-> "raise", exc |-> <exception class>].                             *)
(***************************************************************************)
EXTENDS Integers, Sequences, FiniteSets, TLC

(***************************************************************************)
(* Python values                                                           *)
(***************************************************************************)
PyStr(s) == [t |-> "str", str |-> s]
PyBytes(b) == [t |-> "bytes", bytes |-> b]
PyInt(n) == [t |-> "int", int |-> n]
PyBool(b) == [t |-> "bool", bool |-> b]
PyList(l) == [t |-> "list", list |-> l]
PyDict(pairs) == [t |-> "dict", dict |-> pairs]
PyFloat(literal) == [t |-> "float", float |-> literal]
PyNone == [t |-> "NoneType"]
Raise(e) == [t |-> "raise", exc |-> e]
IsRaise(x) == x.t = "raise"

(* The printable ASCII characters, code points 32..126, in order (code point
   96 is spelled out). *)
AsciiTable ==
  << " ", "!", "\"", "#", "$", "%", "&", "'", "(", ")", "*", "+", ",", "-",
     ".", "/", "0", "1", "2", "3", "4", "5", "6", "7", "8", "9", ":", ";",
     "<", "=", ">", "?", "@", "A", "B", "C", "D", "E", "F", "G", "H", "I",
     "J", "K", "L", "M", "N", "O", "P", "Q", "R", "S", "T", "U", "V", "W",
     "X", "Y", "Z", "[", "\\", "]", "^", "_", "grave", "a", "b", "c", "d", "e",
     "f", "g", "h", "i", "j", "k", "l", "m", "n", "o", "p", "q", "r", "s",
     "t", "u", "v", "w", "x", "y", "z", "{", "|", "}", "~" >>

(* ord(c) of a one-character string, and a text literal given character by
   character. *)
Ord(c) == 31 + (CHOOSE i \in 1..Len(AsciiTable) : AsciiTable[i] = c)
Text(cs) == [i \in 1..Len(cs) |-> Ord(cs[i])]

RECURSIVE Concat(_)
Concat(ss) == IF Len(ss) = 0 THEN <<>> ELSE Head(ss) \o Concat(Tail(ss))

(***************************************************************************)
(* base64 (standard alphabet)                                              *)
(***************************************************************************)
\* the character of a 6-bit value
B64Char(n) ==
  IF n < 26 THEN 65 (* A *) + n
  ELSE IF n < 52 THEN 97 (* a *) + (n - 26)
  ELSE IF n < 62 THEN 48 (* 0 *) + (n - 52)
  ELSE IF n = 62 THEN 43 (* + *) ELSE 47 (* / *)

\* binascii's table_a2b_base64: the 6-bit value of a character, 64 when the
\* character is not of the alphabet
B64Value(c) ==
  IF c >= 65 (* A *) /\ c <= 90 (* Z *) THEN c - 65 (* A *)
  ELSE IF c >= 97 (* a *) /\ c <= 122 (* z *) THEN c - 97 (* a *) + 26
  ELSE IF c >= 48 (* 0 *) /\ c <= 57 (* 9 *) THEN c - 48 (* 0 *) + 52
  ELSE IF c = 43 (* + *) THEN 62
  ELSE IF c = 47 (* / *) THEN 63
  ELSE 64

\* base64.b64encode on the bytes b, as the ASCII bytes of the encoding:
\* character k encodes six bits of its group of three bytes, "=" fills a
\* short last group
B64EncodeSeq(b) ==
  [k \in 1..(4 * ((Len(b) + 2) \div 3)) |->
     LET base == 3 * ((k - 1) \div 4)
         p == (k - 1) % 4
         b1 == b[base + 1]
         b2 == IF base + 2 <= Len(b) THEN b[base + 2] ELSE 0
         b3 == IF base + 3 <= Len(b) THEN b[base + 3] ELSE 0
     IN CASE p = 0 -> B64Char(b1 \div 4)
          [] p = 1 -> B64Char((b1 % 4) * 16 + (b2 \div 16))
          [] p = 2 -> IF base + 2 <= Len(b)
                      THEN B64Char((b2 % 16) * 4 + (b3 \div 64)) ELSE 61 (* = *)
          [] p = 3 -> IF base + 3 <= Len(b) THEN B64Char(b3 % 64) ELSE 61 (* = *)]

\* binascii.a2b_base64 without strict mode, in its steps.  Characters
\* outside the alphabet are skipped: f is what is left.
B64Filter(s) == SelectSeq(s, LAMBDA c : c = 61 (* = *) \/ B64Value(c) < 64)
\* A pad sequence that completes a quad ends the input: the first "=" after
\* 4n+3 data characters, the second of two "=" in a row after 4n+2.
B64Ends(f, i) ==
  /\ f[i] = 61 (* = *)
  /\ \/ Cardinality({j \in 1..(i - 1) : f[j] # 61 (* = *)}) % 4 = 3
     \/ /\ Cardinality({j \in 1..(i - 1) : f[j] # 61 (* = *)}) % 4 = 2
        /\ i > 1
        /\ f[i - 1] = 61 (* = *)
\* the position of the ending pad, 0 when there is none
B64End(f) ==
  IF \E i \in 1..Len(f) : B64Ends(f, i)
  THEN CHOOSE i \in 1..Len(f) : B64Ends(f, i) /\ \A j \in 1..(i - 1) : ~B64Ends(f, j)
  ELSE 0
\* the data characters before the end
B64Data(f, end) ==
  SelectSeq(SubSeq(f, 1, IF end = 0 THEN Len(f) ELSE end - 1),
            LAMBDA c : c # 61 (* = *))
\* each byte is eight bits of the six-bit values v of the data characters
B64Bytes(v) ==
  [j \in 1..((Len(v) * 6) \div 8) |->
     LET a == ((8 * (j - 1)) \div 6) + 1
         o == (8 * (j - 1)) % 6
     IN CASE o = 0 -> v[a] * 4 + (v[a + 1] \div 16)
          [] o = 2 -> (v[a] % 16) * 16 + (v[a + 1] \div 4)
          [] o = 4 -> (v[a] % 4) * 64 + v[a + 1]]
\* without an ending pad, a quad left open at the end is an error
B64Result(end, data) ==
  IF end = 0 /\ Len(data) % 4 # 0 THEN Raise("binascii.Error")
  ELSE PyBytes(B64Bytes([a \in 1..Len(data) |-> B64Value(data[a])]))
B64Unpad(f, end) == B64Result(end, B64Data(f, end))
B64Unfiltered(f) == B64Unpad(f, B64End(f))
A2bBase64(s) == B64Unfiltered(B64Filter(s))

\* base64.b64decode(s) for a str (or bytes) s: a str must be pure ASCII
B64Decode(s) ==
  IF \E i \in 1..Len(s.str) : s.str[i] > 127 THEN Raise("ValueError")
  ELSE A2bBase64(s.str)

\* base64.b64encode(b): bytes
B64Encode(b) == PyBytes(B64EncodeSeq(b.bytes))

(***************************************************************************)
(* UTF-8                                                                   *)
(***************************************************************************)
IsCont(b) == b >= 128 /\ b <= 191

\* the number of bytes the lead byte b announces, 0 when b is no lead byte
Utf8Length(b) ==
  IF b < 128 THEN 1
  ELSE IF b >= 194 /\ b <= 223 THEN 2
  ELSE IF b >= 224 /\ b <= 239 THEN 3
  ELSE IF b >= 240 /\ b <= 244 THEN 4
  ELSE 0

\* bytes.decode('utf-8') on the byte sequence b; with surrogatepass the
\* encoded surrogates ED A0..BF xx pass (the error handler json.loads
\* uses).  The text is well formed when every byte that is no continuation
\* byte is a lead byte followed by exactly the continuation bytes it
\* announces, the first of them in the range the lead allows.
Utf8DecodeSeq(b, surrogatepass) ==
  LET n == Len(b)
      leads == SelectSeq([i \in 1..n |-> i], LAMBDA i : ~IsCont(b[i]))
      WellFormed(i) ==
        LET l == Utf8Length(b[i]) IN
        /\ l > 0
        /\ i + l - 1 <= n
        /\ \A k \in 1..(l - 1) : IsCont(b[i + k])
        /\ i + l <= n => ~IsCont(b[i + l])
        /\ l = 3 => /\ b[i + 1] >= (IF b[i] = 224 THEN 160 ELSE 128)
                    /\ b[i + 1] <= (IF b[i] = 237 /\ ~surrogatepass THEN 159 ELSE 191)
        /\ l = 4 => /\ b[i + 1] >= (IF b[i] = 240 THEN 144 ELSE 128)
                    /\ b[i + 1] <= (IF b[i] = 244 THEN 143 ELSE 191)
      CodePoint(i) ==
        CASE Utf8Length(b[i]) = 1 -> b[i]
          [] Utf8Length(b[i]) = 2 -> (b[i] - 192) * 64 + (b[i + 1] - 128)
          [] Utf8Length(b[i]) = 3 ->
               (b[i] - 224) * 4096 + (b[i + 1] - 128) * 64 + (b[i + 2] - 128)
          [] Utf8Length(b[i]) = 4 ->
               (b[i] - 240) * 262144 + (b[i + 1] - 128) * 4096
               + (b[i + 2] - 128) * 64 + (b[i + 3] - 128)
  IN IF (n > 0 /\ IsCont(b[1])) \/ \E k \in 1..Len(leads) : ~WellFormed(leads[k])
     THEN Raise("UnicodeDecodeError")
     ELSE PyStr([k \in 1..Len(leads) |-> CodePoint(leads[k])])

\* b.decode('utf-8')
Utf8Decode(b) == Utf8DecodeSeq(b.bytes, FALSE)

\* the UTF-8 bytes of one code point (no surrogates)
Utf8Char(c) ==
  IF c < 128 THEN << c >>
  ELSE IF c < 2048 THEN << 192 + (c \div 64), 128 + (c % 64) >>
  ELSE IF c < 65536 THEN
    << 224 + (c \div 4096), 128 + ((c \div 64) % 64), 128 + (c % 64) >>
  ELSE << 240 + (c \div 262144), 128 + ((c \div 4096) % 64),
          128 + ((c \div 64) % 64), 128 + (c % 64) >>

IsSurrogate(c) == c >= 55296 /\ c <= 57343

\* s.encode('utf-8') on the code points s (ASCII text encodes to itself)
Utf8EncodeSeq(s) ==
  IF \A i \in 1..Len(s) : s[i] < 128 THEN s
  ELSE Concat([i \in 1..Len(s) |-> Utf8Char(s[i])])
Utf8Encode(s) ==
  IF \E i \in 1..Len(s.str) : IsSurrogate(s.str[i]) THEN Raise("UnicodeEncodeError")
  ELSE PyBytes(Utf8EncodeSeq(s.str))

(***************************************************************************)
(* json.loads                                                              *)
(***************************************************************************)
HexDigits == << 48, 49, 50, 51, 52, 53, 54, 55, 56, 57, 97, 98, 99, 100, 101, 102 >> (* 0123456789abcdef *)
IsDigit(c) == c >= 48 (* 0 *) /\ c <= 57 (* 9 *)
IsHex(c) ==
  \/ IsDigit(c)
  \/ (c >= 97 (* a *) /\ c <= 102 (* f *))
  \/ (c >= 65 (* A *) /\ c <= 70 (* F *))
HexValue(c) ==
  IF IsDigit(c) THEN c - 48 (* 0 *)
  ELSE IF c >= 97 (* a *) THEN c - 97 (* a *) + 10 ELSE c - 65 (* A *) + 10
\* the JSON whitespace: space, \t, \n, \r
IsJsonWs(c) == c \in {32, 9, 10, 13}

\* A parse step answers [ok, val, pos]: the value and the position after it,
\* or ok = FALSE (JSONDecodeError).
ParseFail == [ok |-> FALSE, val |-> PyNone, pos |-> 0]
Parsed(val, pos) == [ok |-> TRUE, val |-> val, pos |-> pos]

RECURSIVE SkipWs(_, _)
SkipWs(s, i) == IF i <= Len(s) /\ IsJsonWs(s[i]) THEN SkipWs(s, i + 1) ELSE i

\* the position after the digits that start at i
RECURSIVE SkipDigits(_, _)
SkipDigits(s, i) ==
  IF i <= Len(s) /\ IsDigit(s[i]) THEN SkipDigits(s, i + 1) ELSE i

\* int() of the decimal digits ds
RECURSIVE DigitsValue(_, _)
DigitsValue(ds, acc) ==
  IF Len(ds) = 0 THEN acc
  ELSE DigitsValue(Tail(ds), acc * 10 + (Head(ds) - 48 (* 0 *)))

HasPrefix(s, i, p) ==
  /\ i + Len(p) - 1 <= Len(s)
  /\ \A k \in 1..Len(p) : s[i + k - 1] = p[k]

\* json.decoder.NUMBER_RE, (-?(?:0|[1-9]\d*))(\.\d+)?([eE][-+]?\d+)? , piece
\* by piece: the position after the integer part whose digits start at d0
NumberIntEnd(s, d0) ==
  IF d0 <= Len(s) /\ s[d0] = 48 (* 0 *) THEN d0 + 1 ELSE SkipDigits(s, d0)
\* the position after the optional fraction at intEnd
NumberFracEnd(s, intEnd) ==
  IF intEnd + 1 <= Len(s) /\ s[intEnd] = 46 (* . *) /\ IsDigit(s[intEnd + 1])
  THEN SkipDigits(s, intEnd + 1) ELSE intEnd
\* the first digit of an exponent at fracEnd, after its optional sign
NumberExpDigits(s, fracEnd) ==
  IF fracEnd + 1 <= Len(s) /\ s[fracEnd + 1] \in {43 (* + *), 45 (* - *)}
  THEN fracEnd + 2 ELSE fracEnd + 1
\* the position after the optional exponent at fracEnd, its digits at e0
NumberExpEnd(s, fracEnd, e0) ==
  IF /\ fracEnd <= Len(s)
     /\ s[fracEnd] \in {101 (* e *), 69 (* E *)}
     /\ e0 <= Len(s)
     /\ IsDigit(s[e0])
  THEN SkipDigits(s, e0) ELSE fracEnd
\* a variant of NumberValue that keeps every number as the text of its
\* literal (an integer does not come back as an int)
NumberValueAsText(s, i, d0, intEnd, expEnd) ==
  IF intEnd = d0 THEN ParseFail
  ELSE Parsed(PyStr(SubSeq(s, i, expEnd - 1)), expEnd)
\* the match from i to expEnd: an integer literal gives an int, one with a
\* fraction or an exponent a float (kept as the text of its literal), no
\* digit no number
NumberValue(s, i, d0, intEnd, expEnd) ==
  IF intEnd = d0 THEN ParseFail
  ELSE IF expEnd = intEnd
  THEN Parsed(PyInt((IF d0 > i THEN 0 - 1 ELSE 1)
                    * DigitsValue(SubSeq(s, d0, intEnd - 1), 0)), intEnd)
  ELSE Parsed(PyFloat(SubSeq(s, i, expEnd - 1)), expEnd)
NumberFrom(s, i, d0, intEnd, fracEnd) ==
  NumberValue(s, i, d0, intEnd, NumberExpEnd(s, fracEnd, NumberExpDigits(s, fracEnd)))
NumberAfterSign(s, i, d0, intEnd) ==
  NumberFrom(s, i, d0, intEnd, NumberFracEnd(s, intEnd))
\* the number at i
ParseNumber(s, i) ==
  IF i <= Len(s) /\ s[i] = 45 (* - *)
  THEN NumberAfterSign(s, i, i + 1, NumberIntEnd(s, i + 1))
  ELSE NumberAfterSign(s, i, i, NumberIntEnd(s, i))

\* json.decoder.py_scanstring (strict) from the position after the opening
\* quote: out is the text so far
RECURSIVE ScanString(_, _, _)
ScanString(s, i, out) ==
  IF i > Len(s) THEN ParseFail
  ELSE IF s[i] = 34 (* " *) THEN Parsed(PyStr(out), i + 1)
  ELSE IF s[i] < 32 THEN ParseFail
  ELSE IF s[i] # 92 (* \ *) THEN ScanString(s, i + 1, Append(out, s[i]))
  ELSE IF i + 1 > Len(s) THEN ParseFail
  ELSE LET e == s[i + 1] IN
    IF e = 117 (* u *) THEN
      IF i + 5 <= Len(s) /\ \A k \in 2..5 : IsHex(s[i + k]) THEN
        LET uni == HexValue(s[i + 2]) * 4096 + HexValue(s[i + 3]) * 256
                   + HexValue(s[i + 4]) * 16 + HexValue(s[i + 5])
            paired ==
              /\ uni >= 55296 /\ uni <= 56319
              /\ i + 11 <= Len(s)
              /\ s[i + 6] = 92 (* \ *) /\ s[i + 7] = 117 (* u *)
              /\ \A k \in 8..11 : IsHex(s[i + k])
            uni2 == HexValue(s[i + 8]) * 4096 + HexValue(s[i + 9]) * 256
                    + HexValue(s[i + 10]) * 16 + HexValue(s[i + 11])
        IN IF paired /\ uni2 >= 56320 /\ uni2 <= 57343
           THEN ScanString(s, i + 12,
                  Append(out, 65536 + (uni - 55296) * 1024 + (uni2 - 56320)))
           ELSE ScanString(s, i + 6, Append(out, uni))
      ELSE ParseFail
    ELSE IF e \in {34 (* " *), 92 (* \ *), 47 (* / *)} THEN
      ScanString(s, i + 2, Append(out, e))
    ELSE IF e = 98 (* b *) THEN ScanString(s, i + 2, Append(out, 8))
    ELSE IF e = 102 (* f *) THEN ScanString(s, i + 2, Append(out, 12))
    ELSE IF e = 110 (* n *) THEN ScanString(s, i + 2, Append(out, 10))
    ELSE IF e = 114 (* r *) THEN ScanString(s, i + 2, Append(out, 13))
    ELSE IF e = 116 (* t *) THEN ScanString(s, i + 2, Append(out, 9))
    ELSE ParseFail

\* a dict after d[k] = v: the pair replaces the value of an equal key in
\* place, a new key goes last
DictSet(pairs, k, v) ==
  IF \E j \in 1..Len(pairs) : pairs[j][1] = k
  THEN [j \in 1..Len(pairs) |-> IF pairs[j][1] = k THEN << k, v >> ELSE pairs[j]]
  ELSE Append(pairs, << k, v >>)

\* _scan_once's last cases: m is match_number's answer at i
ScanOnceNumber(s, i, m) ==
  IF m.ok THEN m
  ELSE IF HasPrefix(s, i, << 78, 97, 78 >> (* NaN *)) THEN
    Parsed(PyFloat(<< 78, 97, 78 >> (* NaN *)), i + 3)
  ELSE IF HasPrefix(s, i, << 73, 110, 102, 105, 110, 105, 116, 121 >> (* Infinity *)) THEN
    Parsed(PyFloat(SubSeq(s, i, i + 7)), i + 8)
  ELSE IF HasPrefix(s, i, << 45, 73, 110, 102, 105, 110, 105, 116, 121 >> (* -Infinity *)) THEN
    Parsed(PyFloat(SubSeq(s, i, i + 8)), i + 9)
  ELSE ParseFail

RECURSIVE ScanOnce(_, _)
RECURSIVE ParseArrayItems(_, _, _)
RECURSIVE ParseObjectMembers(_, _, _)

\* json.scanner.py_make_scanner's _scan_once at i
ScanOnce(s, i) ==
  IF i > Len(s) THEN ParseFail
  ELSE IF s[i] = 34 (* " *) THEN ScanString(s, i + 1, <<>>)
  ELSE IF s[i] = 91 (* [ *) THEN
    LET j == SkipWs(s, i + 1) IN
    IF j <= Len(s) /\ s[j] = 93 (* ] *) THEN Parsed(PyList(<<>>), j + 1)
    ELSE ParseArrayItems(s, j, <<>>)
  ELSE IF s[i] = 123 (* { *) THEN
    LET j == SkipWs(s, i + 1) IN
    IF j <= Len(s) /\ s[j] = 125 (* } *) THEN Parsed(PyDict(<<>>), j + 1)
    ELSE ParseObjectMembers(s, j, <<>>)
  ELSE IF HasPrefix(s, i, << 110, 117, 108, 108 >> (* null *)) THEN
    Parsed(PyNone, i + 4)
  ELSE IF HasPrefix(s, i, << 116, 114, 117, 101 >> (* true *)) THEN
    Parsed(PyBool(TRUE), i + 4)
  ELSE IF HasPrefix(s, i, << 102, 97, 108, 115, 101 >> (* false *)) THEN
    Parsed(PyBool(FALSE), i + 5)
  ELSE ScanOnceNumber(s, i, ParseNumber(s, i))

\* json.decoder.JSONArray after the opening bracket: i is at an item
ParseArrayItems(s, i, items) ==
  LET r == ScanOnce(s, i) IN
  IF ~r.ok THEN ParseFail
  ELSE LET j == SkipWs(s, r.pos) IN
    IF j > Len(s) THEN ParseFail
    ELSE IF s[j] = 93 (* ] *) THEN Parsed(PyList(Append(items, r.val)), j + 1)
    ELSE IF s[j] = 44 (* , *) THEN
      ParseArrayItems(s, SkipWs(s, j + 1), Append(items, r.val))
    ELSE ParseFail

\* json.decoder.JSONObject after the opening brace: i is at a key
ParseObjectMembers(s, i, pairs) ==
  IF i > Len(s) \/ s[i] # 34 (* " *) THEN ParseFail
  ELSE LET k == ScanString(s, i + 1, <<>>) IN
    IF ~k.ok THEN ParseFail
    ELSE LET c == SkipWs(s, k.pos) IN
      IF c > Len(s) \/ s[c] # 58 (* : *) THEN ParseFail
      ELSE LET r == ScanOnce(s, SkipWs(s, c + 1)) IN
        IF ~r.ok THEN ParseFail
        ELSE LET j == SkipWs(s, r.pos) IN
          IF j > Len(s) THEN ParseFail
          ELSE IF s[j] = 125 (* } *) THEN
            Parsed(PyDict(DictSet(pairs, k.val, r.val)), j + 1)
          ELSE IF s[j] = 44 (* , *) THEN
            ParseObjectMembers(s, SkipWs(s, j + 1), DictSet(pairs, k.val, r.val))
          ELSE ParseFail

\* json.JSONDecoder.decode on the text s: one value between optional
\* whitespace, nothing after it
JsonDecodeText(s) ==
  LET r == ScanOnce(s, SkipWs(s, 1)) IN
  IF ~r.ok THEN Raise("JSONDecodeError")
  ELSE IF SkipWs(s, r.pos) # Len(s) + 1 THEN Raise("JSONDecodeError")
  ELSE r.val

\* json.loads(b) for bytes b whose encoding json.detect_encoding finds to be
\* UTF-8 (no byte order mark, no zero byte among the first four): the bytes
\* are decoded with 'surrogatepass' and the text is parsed
JsonLoads(b) ==
  LET text == Utf8DecodeSeq(b.bytes, TRUE) IN
  IF IsRaise(text) THEN text ELSE JsonDecodeText(text.str)

(***************************************************************************)
(* json.dumps with the default settings (ensure_ascii, ", " separators)    *)
(***************************************************************************)
\* repr of an int: its decimal digits
RECURSIVE NatRepr(_)
NatRepr(n) ==
  IF n < 10 THEN << 48 (* 0 *) + n >>
  ELSE Append(NatRepr(n \div 10), 48 (* 0 *) + (n % 10))
IntRepr(n) == IF n < 0 THEN << 45 (* - *) >> \o NatRepr(0 - n) ELSE NatRepr(n)

\* \uXXXX with four lower-case hex digits
UEscape(c) ==
  << 92 (* \ *), 117 (* u *), HexDigits[((c \div 4096) % 16) + 1],
     HexDigits[((c \div 256) % 16) + 1], HexDigits[((c \div 16) % 16) + 1],
     HexDigits[(c % 16) + 1] >>

\* json.encoder.py_encode_basestring_ascii on one character
JsonEscapeChar(c) ==
  IF c = 34 (* " *) THEN << 92 (* \ *), 34 (* " *) >>
  ELSE IF c = 92 (* \ *) THEN << 92 (* \ *), 92 (* \ *) >>
  ELSE IF c = 10 THEN << 92 (* \ *), 110 (* n *) >>
  ELSE IF c = 13 THEN << 92 (* \ *), 114 (* r *) >>
  ELSE IF c = 9 THEN << 92 (* \ *), 116 (* t *) >>
  ELSE IF c = 12 THEN << 92 (* \ *), 102 (* f *) >>
  ELSE IF c = 8 THEN << 92 (* \ *), 98 (* b *) >>
  ELSE IF c >= 32 /\ c <= 126 THEN << c >>
  ELSE IF c < 65536 THEN UEscape(c)
  ELSE UEscape(55296 + (((c - 65536) \div 1024) % 1024))
       \o UEscape(56320 + ((c - 65536) % 1024))

JsonDumpsStr(s) ==
  << 34 (* " *) >> \o Concat([i \in 1..Len(s) |-> JsonEscapeChar(s[i])])
  \o << 34 (* " *) >>

\* ", ".join(parts)
RECURSIVE JoinComma(_)
JoinComma(parts) ==
  IF Len(parts) = 0 THEN <<>>
  ELSE IF Len(parts) = 1 THEN parts[1]
  ELSE parts[1] \o << 44 (* , *), 32 (* space *) >> \o JoinComma(Tail(parts))

\* json.dumps(x): the text, for x built of lists, str, int, bool and None
RECURSIVE JsonDumps(_)
JsonDumps(x) ==
  CASE x.t = "str" -> JsonDumpsStr(x.str)
    [] x.t = "int" -> IntRepr(x.int)
    [] x.t = "bool" -> IF x.bool THEN << 116, 114, 117, 101 >> (* true *)
                       ELSE << 102, 97, 108, 115, 101 >> (* false *)
    [] x.t = "NoneType" -> << 110, 117, 108, 108 >> (* null *)
    [] x.t = "list" ->
         << 91 (* [ *) >> \o JoinComma([i \in 1..Len(x.list) |-> JsonDumps(x.list[i])])
         \o << 93 (* ] *) >>

(***************************************************************************)
(* The query string: urllib.parse.urlencode, and the parse Flask's         *)
(* request.args is built by                                                *)
(***************************************************************************)
UpperHex == << 48, 49, 50, 51, 52, 53, 54, 55, 56, 57, 65, 66, 67, 68, 69, 70 >> (* 0123456789ABCDEF *)

\* urllib.parse's always-safe characters
IsUrlSafe(c) ==
  \/ (c >= 65 (* A *) /\ c <= 90 (* Z *))
  \/ (c >= 97 (* a *) /\ c <= 122 (* z *))
  \/ IsDigit(c)
  \/ c \in {95 (* _ *), 46 (* . *), 45 (* - *), 126 (* ~ *)}

\* urllib.parse.quote_plus on one byte of the UTF-8 encoding
QuotePlusByte(b) ==
  IF b = 32 (* space *) THEN << 43 (* + *) >>
  ELSE IF IsUrlSafe(b) THEN << b >>
  ELSE << 37 (* % *), UpperHex[(b \div 16) + 1], UpperHex[(b % 16) + 1] >>

\* urllib.parse.quote_plus(s) for the text s
QuotePlus(s) ==
  LET b == Utf8EncodeSeq(s) IN Concat([i \in 1..Len(b) |-> QuotePlusByte(b[i])])

\* urllib.parse.urlencode(doc) for a dict of str given as its items in order
RECURSIVE UrlEncode(_)
UrlEncode(items) ==
  IF Len(items) = 0 THEN <<>>
  ELSE QuotePlus(items[1][1]) \o << 61 (* = *) >> \o QuotePlus(items[1][2])
       \o (IF Len(items) = 1 THEN <<>> ELSE << 38 (* & *) >> \o UrlEncode(Tail(items)))

\* s.split(sep): the pieces of s between the separators sep
Split(s, sep) ==
  LET at == SelectSeq([i \in 1..Len(s) |-> i], LAMBDA i : s[i] = sep)
      from(k) == IF k = 1 THEN 1 ELSE at[k - 1] + 1
      to(k) == IF k = Len(at) + 1 THEN Len(s) ELSE at[k] - 1
  IN [k \in 1..(Len(at) + 1) |-> SubSeq(s, from(k), to(k))]

\* unquote_to_bytes after '+' became a space: %XX with two hex digits is the
\* byte, anything else stands for itself
RECURSIVE UnquotePlusBytes(_)
UnquotePlusBytes(s) ==
  IF Len(s) = 0 THEN <<>>
  ELSE IF Head(s) = 43 (* + *) THEN << 32 (* space *) >> \o UnquotePlusBytes(Tail(s))
  ELSE IF Head(s) = 37 (* % *) /\ Len(s) >= 3 /\ IsHex(s[2]) /\ IsHex(s[3]) THEN
    << HexValue(s[2]) * 16 + HexValue(s[3]) >> \o UnquotePlusBytes(SubSeq(s, 4, Len(s)))
  ELSE << Head(s) >> \o UnquotePlusBytes(Tail(s))

\* the first position of c in s, 0 when there is none
IndexOf(s, c) ==
  IF \E i \in 1..Len(s) : s[i] = c
  THEN CHOOSE i \in 1..Len(s) : s[i] = c /\ \A j \in 1..(i - 1) : s[j] # c
  ELSE 0

\* one name=value field of the query string as a (name, value) pair of texts
\* (the field's bytes are UTF-8, as urlencode's output always is)
ParseField(f) ==
  LET eq == IndexOf(f, 61 (* = *))
      name == IF eq = 0 THEN f ELSE SubSeq(f, 1, eq - 1)
      value == IF eq = 0 THEN <<>> ELSE SubSeq(f, eq + 1, Len(f))
  IN << Utf8DecodeSeq(UnquotePlusBytes(name), FALSE).str,
        Utf8DecodeSeq(UnquotePlusBytes(value), FALSE).str >>

\* The (name, value) pairs of a query string, blank values kept and empty
\* fields dropped: what request.args holds, in order, repeats included.
ParseQuery(q) ==
  LET fields == SelectSeq(Split(q, 38 (* & *)), LAMBDA f : Len(f) > 0)
  IN [i \in 1..Len(fields) |-> ParseField(fields[i])]

(***************************************************************************)
(* The property type checker and the entity JSON builder                   *)
(***************************************************************************)
\* the classes isinstance(x, cls) accepts for a value of type t: the type
\* and its base classes (bool is a subclass of int)
Mro(t) ==
  CASE t = "bool" -> {"bool", "int", "object"}
    [] t = "datetime" -> {"datetime", "date", "object"}
    [] OTHER -> {t, "object"}
IsInstance(x, cls) == cls \in Mro(x.t)

\* a variant of the checker that asks for bool before int
ProjectAPIView_property_type_checker_bool_first(prop) ==
  IF IsInstance(prop, "str") THEN "string"
  ELSE IF IsInstance(prop, "bool") THEN "boolean"
  ELSE IF IsInstance(prop, "int") THEN "integer"
  ELSE IF IsInstance(prop, "float") THEN "float"
  ELSE IF IsInstance(prop, "datetime") THEN "timestamp"
  ELSE IF IsInstance(prop, "Key") THEN "key"
  ELSE "null"

\* ProjectAPIView._property_type_checker
ProjectAPIView_property_type_checker(prop) ==
  IF IsInstance(prop, "str") THEN "string"
  ELSE IF IsInstance(prop, "int") THEN "integer"
  ELSE IF IsInstance(prop, "float") THEN "float"
  ELSE IF IsInstance(prop, "bool") THEN "boolean"
  ELSE IF IsInstance(prop, "datetime") THEN "timestamp"
  ELSE IF IsInstance(prop, "Key") THEN "key"
  ELSE "null"

\* EntityAPIView._property_type_checker
EntityAPIView_property_type_checker(prop) ==
  IF IsInstance(prop, "str") THEN "string"
  ELSE IF IsInstance(prop, "int") THEN "integer"
  ELSE IF IsInstance(prop, "float") THEN "float"
  ELSE IF IsInstance(prop, "bool") THEN "boolean"
  ELSE IF IsInstance(prop, "datetime") THEN "timestamp"
  ELSE IF IsInstance(prop, "Key") THEN "key"
  ELSE "null"

\* A datastore.Key: its project and its path.  An entity: its key, its
\* properties (a dict from property names to values) and the key token the
\* repository attached to it (_serialized_key).
PyKey(project, path) == [t |-> "Key", key |-> [project |-> project, path |-> path]]

\* the dict entity_dict starts as (lines 144-155)
EntityDictStart(entity) ==
  [t |-> "dict",
   dict |-> [entity |-> [key |-> [partitionId |-> [projectId |-> entity.key.key.project],
                                  path |-> entity.key.key.path],
                         properties |-> << >>],
             URLSafeKey |-> entity.serialized_key]]

\* a variant of the loop body that renders a key like any other value
ProjectAPIView_property_entry_key_as_stored(entity, property) ==
  [property_name |-> property,
   value_type |-> ProjectAPIView_property_type_checker(entity.props[property]),
   value |-> entity.props[property],
   index |-> TRUE]

\* one pass of ProjectAPIView._build_entity_json's loop body
ProjectAPIView_property_entry(entity, property) ==
  LET value == IF ProjectAPIView_property_type_checker(entity.props[property]) = "key"
               THEN entity.props[property].key.path
               ELSE entity.props[property]
  IN [property_name |-> property,
      value_type |-> ProjectAPIView_property_type_checker(entity.props[property]),
      value |-> value,
      index |-> TRUE]

\* the loop of _build_entity_json over properties[i..]: entity[property]
\* raises KeyError for a name the entity does not hold
RECURSIVE ProjectAPIView_build_loop(_, _, _, _)
ProjectAPIView_build_loop(entity, properties, i, entity_dict) ==
  IF i > Len(properties) THEN entity_dict
  ELSE IF properties[i] \notin DOMAIN entity.props THEN Raise("KeyError")
  ELSE ProjectAPIView_build_loop(entity, properties, i + 1,
         [entity_dict EXCEPT !.dict.entity.properties =
            Append(@, ProjectAPIView_property_entry(entity, properties[i]))])

\* ProjectAPIView._build_entity_json
ProjectAPIView_build_entity_json(entity, properties) ==
  ProjectAPIView_build_loop(entity, properties, 1, EntityDictStart(entity))

\* one pass of EntityAPIView._build_entity_json's loop body
EntityAPIView_property_entry(entity, property) ==
  LET value == IF EntityAPIView_property_type_checker(entity.props[property]) = "key"
               THEN entity.props[property].key.path
               ELSE entity.props[property]
  IN [property_name |-> property,
      value_type |-> EntityAPIView_property_type_checker(entity.props[property]),
      value |-> value,
      index |-> TRUE]

RECURSIVE EntityAPIView_build_loop(_, _, _, _)
EntityAPIView_build_loop(entity, properties, i, entity_dict) ==
  IF i > Len(properties) THEN entity_dict
  ELSE IF properties[i] \notin DOMAIN entity.props THEN Raise("KeyError")
  ELSE EntityAPIView_build_loop(entity, properties, i + 1,
         [entity_dict EXCEPT !.dict.entity.properties =
            Append(@, EntityAPIView_property_entry(entity, properties[i]))])

\* EntityAPIView._build_entity_json
EntityAPIView_build_entity_json(entity, properties) ==
  EntityAPIView_build_loop(entity, properties, 1, EntityDictStart(entity))

(***************************************************************************)
(* The key token                                                           *)
(***************************************************************************)
\* one segment [kind, id_or_name] of an ancestor path
Seg(kind, id) == PyList(<< PyStr(kind), id >>)

\* a well-formed ancestor path: a non-empty list of [kind, id-or-name]
\* pairs, the kind a string, the identifier an integer or a string
IsWellFormedPath(x) ==
  /\ x.t = "list"
  /\ Len(x.list) >= 1
  /\ \A i \in 1..Len(x.list) :
       /\ x.list[i].t = "list"
       /\ Len(x.list[i].list) = 2
       /\ x.list[i].list[1].t = "str"
       /\ x.list[i].list[2].t \in {"int", "str"}

\* The token of a path: base64 of the UTF-8 JSON array, as text.
EncodeKeyToken(path) == PyStr(B64EncodeSeq(Utf8EncodeSeq(JsonDumps(path))))

\* the handlers' decode step json.loads(base64.b64decode(serialized_key));
\* b64decode(None) raises TypeError
DecodeKeyToken(serialized_key) ==
  IF serialized_key.t = "NoneType" THEN Raise("TypeError")
  ELSE LET raw == B64Decode(serialized_key) IN
       IF IsRaise(raw) THEN raw ELSE JsonLoads(raw)

\* the handlers' cursor step
\* base64.b64decode(request.args.get('cursor', '')).decode('utf-8')
DecodeCursor(param) ==
  LET raw == B64Decode(param) IN IF IsRaise(raw) THEN raw ELSE Utf8Decode(raw)

\* base64.b64encode(next_cursor).decode('ascii')
EncodeCursor(next_cursor) == PyStr(B64Encode(next_cursor).bytes)

(***************************************************************************)
(* request.args, a MultiDict given as its (name, value) pairs in order     *)
(***************************************************************************)
HasArg(args, name) == \E i \in 1..Len(args) : args[i][1] = name
FirstArg(args, name) ==
  args[CHOOSE i \in 1..Len(args) :
         args[i][1] = name /\ \A j \in 1..(i - 1) : args[j][1] # name][2]

\* request.args.get(name): the first value, None when the name is absent
ArgsGet(args, name) ==
  IF HasArg(args, name) THEN PyStr(FirstArg(args, name)) ELSE PyNone
\* request.args.get(name, default)
ArgsGetDefault(args, name, default) ==
  IF HasArg(args, name) THEN PyStr(FirstArg(args, name)) ELSE default

\* request.args.items(): each name once, in the order of its first
\* appearance, with its first value
ArgsItems(args) ==
  LET firsts == SelectSeq([i \in 1..Len(args) |-> << i, args[i] >>],
                          LAMBDA e : \A j \in 1..(e[1] - 1) : args[j][1] # e[2][1])
  IN [i \in 1..Len(firsts) |-> firsts[i][2]]

\* doc.update(kwargs) for the items of doc and of kwargs
RECURSIVE DictUpdate(_, _)
DictUpdate(items, kwargs) ==
  IF Len(kwargs) = 0 THEN items
  ELSE DictUpdate(DictSet(items, kwargs[1][1], kwargs[1][2]), Tail(kwargs))

\* a variant of _build_redirect_path that starts from an empty dict
ProjectView_build_redirect_path_kwargs_only(path, args, kwargs) ==
  path \o << 63 (* ? *) >> \o UrlEncode(DictUpdate(<< >>, kwargs))

\* ProjectView._build_redirect_path(**kwargs) for the request's path and args
ProjectView_build_redirect_path(path, args, kwargs) ==
  path \o << 63 (* ? *) >> \o UrlEncode(DictUpdate(ArgsItems(args), kwargs))

(***************************************************************************)
(* Inputs: what clients send and what the repository (an external          *)
(* collaborator) answers                                                   *)
(***************************************************************************)
\* the number of requests served in one behaviour
MaxRequests == 2

\* limit=20 of the fetch_entities calls
Limit == 20

ProjectName == Text(<< "p" >>)
ProjectPath ==
  Text(<< "/", "d", "a", "t", "a", "s", "t", "o", "r", "e", "_", "v", "i", "e",
          "w", "e", "r", "/", "p", "r", "o", "j", "e", "c", "t", "s", "/" >>)
  \o ProjectName
DashboardPath ==
  Text(<< "/", "d", "a", "t", "a", "s", "t", "o", "r", "e", "_", "v", "i", "e",
          "w", "e", "r" >>)

ArgKind == Text(<< "k", "i", "n", "d" >>)
ArgCursor == Text(<< "c", "u", "r", "s", "o", "r" >>)
ArgNamespace == Text(<< "n", "a", "m", "e", "s", "p", "a", "c", "e" >>)
ArgKey == Text(<< "k", "e", "y" >>)
ArgProjectName ==
  Text(<< "p", "r", "o", "j", "e", "c", "t", "_", "n", "a", "m", "e" >>)
ArgQ == Text(<< "q" >>)
ArgT == Text(<< "t" >>)
ActionDelete == PyStr(Text(<< "d", "e", "l", "e", "t", "e" >>))
ActionDeleteAll ==
  PyStr(Text(<< "d", "e", "l", "e", "t", "e", "_", "a", "l", "l" >>))
ActionOther == PyStr(Text(<< "e", "d", "i", "t" >>))

KindA == Text(<< "A" >>)
KindBc == Text(<< "B", " ", "c" >>)
Kinds == {KindA, KindBc}
\* what fetch_kinds() may answer
KindLists == { << >>, << KindA >>, << KindBc, KindA >> }

\* ancestor paths of stored entities
PathAccountOrder ==
  PyList(<< Seg(Text(<< "A", "c", "c", "o", "u", "n", "t" >>), PyInt(42)),
            Seg(Text(<< "O", "r", "d", "e", "r" >>), PyStr(Text(<< "a", "b", "c" >>))) >>)
PathDigitName == PyList(<< Seg(KindA, PyStr(Text(<< "1" >>))) >>)
PathNegative == PyList(<< Seg(KindA, PyInt(0 - 7)) >>)
PathEscapes ==
  PyList(<< Seg(Text(<< "a", "\"", "b", "\\" >>), PyStr(<< 233, 10, 128512 >>)) >>)
PathDeep ==
  PyList(<< Seg(KindBc, PyInt(1)), Seg(KindBc, PyInt(0)),
            Seg(KindA, PyStr(Text(<< "n", " ", "1" >>))) >>)
Paths == {PathAccountOrder, PathDigitName, PathNegative, PathEscapes, PathDeep}

\* tokens no entity's key encodes to: the base64 text of the given bytes
TokenOf(bytes) == PyStr(B64EncodeSeq(bytes))
MalformedTokens ==
  { PyStr(Text(<< "A" >>)),                                 \* no base64
    PyStr(Text(<< "W", "1", "0" >>)),                       \* padding missing
    PyStr(<< 233 >>),                                       \* not ASCII
    TokenOf(<< 195 >>),                                     \* not UTF-8
    TokenOf(Text(<< "n", "u", "l" >>)),                     \* not JSON
    TokenOf(Text(<< "[", "[", "\"", "A", "\"", ",", "1", "]" >>)),
    TokenOf(Text(<< "[", "]" >>)),                          \* empty array
    TokenOf(Text(<< "4", "2" >>)),                          \* no array
    TokenOf(Text(<< "[", "[", "\"", "A", "\"", "]", "]" >>)),      \* arity 1
    TokenOf(Text(<< "[", "[", "\"", "A", "\"", ",", "1", ",", "2", "]", "]" >>)),
    TokenOf(Text(<< "[", "[", "1", ",", "2", "]", "]" >>)),  \* kind no string
    TokenOf(Text(<< "[", "\"", "A", "\"", ",", "1", "]" >>)),      \* flat
    TokenOf(Text(<< "{", "\"", "A", "\"", ":", "1", "}" >>)),      \* object
    TokenOf(Text(<< "[", "[", "\"", "A", "\"", ",", "n", "u", "l", "l", "]", "]" >>)) }
\* a token that decodes to a well-formed path without being an encoding
\* (whitespace differs)
TokenSpaced ==
  TokenOf(Text(<< " ", "[", "[", "\"", "A", "\"", ",", "7", " ", "]", "]" >>))
KeyTokens == {EncodeKeyToken(path) : path \in Paths} \cup MalformedTokens \cup {TokenSpaced}

\* property values a stored entity can hold
ValueTimestamp == [t |-> "datetime", datetime |-> << 2019, 11, 1 >>]
ValueFloat == PyFloat(Text(<< "1", ".", "5" >>))
ValueParentKey == PyKey(ProjectName, PathDigitName)
PropertyValues ==
  { PyStr(Text(<< "x" >>)), PyStr(<< >>), PyInt(42), PyInt(0), PyInt(1),
    ValueFloat, PyBool(TRUE), PyBool(FALSE), ValueTimestamp, ValueParentKey,
    PyKey(ProjectName, PathAccountOrder), PyNone, PyBytes(<< 1 >>),
    PyList(<< PyInt(1) >>), [t |-> "GeoPoint", point |-> << 1, 2 >>],
    [t |-> "Entity", props |-> << >>], [t |-> "date", date |-> << 2019, 11, 1 >>] }

\* an entity as the repository hands it out
Entity(path, props) ==
  [key |-> PyKey(ProjectName, path), props |-> props,
   serialized_key |-> EncodeKeyToken(path)]
EntityOrder ==
  Entity(PathAccountOrder,
         ("name" :> PyStr(Text(<< "x" >>)) @@ "parentKey" :> ValueParentKey
          @@ "paid" :> PyBool(TRUE)))
EntityA ==
  Entity(PathNegative,
         ("name" :> PyNone @@ "n" :> PyInt(42) @@ "at" :> ValueTimestamp
          @@ "f" :> ValueFloat))
\* what fetch_entities may answer as entities, fetch_entity as entity
EntityLists == { << >>, << EntityOrder, EntityA >> }
Entities == {EntityOrder, EntityA}
\* what fetch_parent_properties() may answer: kind -> property names
PropertyMaps ==
  { (KindA :> << "name", "parentKey" >> @@ KindBc :> << "n" >>),
    (KindA :> << "name" >>) }
\* properties_by_kind.get(kind, [])
DictGetList(m, k) == IF k.t = "str" /\ k.str \in DOMAIN m THEN m[k.str] ELSE << >>

\* the next cursors fetch_entities may answer (bytes)
CursorBytes ==
  { PyBytes(<< >>), PyBytes(Text(<< "C", "g" >>)), PyBytes(<< 195, 169 >>),
    PyBytes(<< 251, 255 >>) }

\* str(datetime.datetime.utcnow().timestamp()) at the time of a POST
Timestamps == { Text(<< "1", "5", "7", "2", ".", "5" >>) }

(***************************************************************************)
(* State                                                                   *)
(***************************************************************************)
VARIABLES
  req,      \* the request being handled (or handled last)
  pc,       \* the handler's position: "idle", "<view>.<method>:<line>", "done"
  loc,      \* the handler's local variables
  calls,    \* the repository calls of this request, in order
  resp,     \* the response, once the handler has ended
  hist,     \* counts over the requests served so far
  subject,  \* the presenter's input, when it is applied on its own
  outcome   \* and its result

vars == << req, pc, loc, calls, resp, hist, subject, outcome >>
presenter == << subject, outcome >>
server == << req, pc, loc, calls, resp, hist >>

NoForm == [action |-> PyNone, key |-> PyNone]
Request(view, method, path, args) ==
  [view |-> view, method |-> method, path |-> path, args |-> args,
   form |-> NoForm, kind |-> PyNone, url_safe_key |-> PyNone,
   sent_back |-> PyNone, via |-> "direct"]
NoRequest == Request("none", "none", << >>, << >>)
NoLocals ==
  [cursor |-> PyNone, serialized_key |-> PyNone, key_path |-> PyNone,
   key |-> PyNone, kinds |-> << >>, properties_by_kind |-> << >>,
   entity |-> PyNone]
NoResponse == [kind |-> "none"]
NoHistory ==
  [served |-> 0, posts_delete |-> 0, posts_delete_all |-> 0,
   posts_delete_built |-> 0, n_delete |-> 0, n_delete_all |-> 0]

ServerInit ==
  /\ req = NoRequest
  /\ pc = "idle"
  /\ loc = NoLocals
  /\ calls = << >>
  /\ resp = NoResponse
  /\ hist = NoHistory
PresenterIdle ==
  /\ subject = [op |-> "none"]
  /\ outcome = PyNone
Init == ServerInit /\ PresenterIdle

(***************************************************************************)
(* How a handler step ends                                                 *)
(***************************************************************************)
Call(op, arg, ok) == [op |-> op, arg |-> arg, ok |-> ok, exc |-> "none"]

\* the failures a repository call may raise
RepositoryErrors == {"NotFound", "PermissionDenied"}

\* hist after one more call of op: the calls of delete and of delete_all are
\* counted, and the POSTs whose key was built
Counted(h, op, ok) ==
  [h EXCEPT !.n_delete = @ + (IF op = "delete" THEN 1 ELSE 0),
            !.n_delete_all = @ + (IF op = "delete_all" THEN 1 ELSE 0),
            !.posts_delete_built =
               @ + (IF op = "build_key_by_flat_path" /\ ok /\ req.method = "POST"
                    THEN 1 ELSE 0)]

\* An exception leaves the handler (no handler catches any): the request
\* ends with it.
Raised(exc, at) ==
  /\ pc' = "done"
  /\ resp' = [kind |-> "error", exc |-> exc, at |-> at]

\* a variant of a raising call in which the handler swallows the failure and
\* answers as if nothing had happened
RepositoryRaisesSwallowed(op, arg) ==
  \E e \in RepositoryErrors :
    /\ calls' = Append(calls, [Call(op, arg, FALSE) EXCEPT !.exc = e])
    /\ hist' = Counted(hist, op, FALSE)
    /\ pc' = "done"
    /\ resp' = [kind |-> "json", body |-> << >>]
    /\ UNCHANGED << req, loc >>

\* the repository call op(arg) raises
RepositoryRaises(op, arg) ==
  \E e \in RepositoryErrors :
    /\ calls' = Append(calls, [Call(op, arg, FALSE) EXCEPT !.exc = e])
    /\ hist' = Counted(hist, op, FALSE)
    /\ Raised(e, op)
    /\ UNCHANGED << req, loc >>

\* the repository call op(arg) returns and the handler goes on at next
RepositoryReturns(op, arg, next) ==
  /\ calls' = Append(calls, Call(op, arg, TRUE))
  /\ hist' = Counted(hist, op, TRUE)
  /\ pc' = next

\* the handler returns the response r
Responds(r) ==
  /\ pc' = "done"
  /\ resp' = r

\* A request arrives: the server takes one request at a time.  A client
\* that follows up on the response just sent (a redirect, a next page) does
\* so from "done"; any other request arrives at the idle server.
FollowsUp(r) == r.via # "direct" \/ r.sent_back # PyNone
Accept(r) ==
  /\ pc = (IF FollowsUp(r) THEN "done" ELSE "idle")
  /\ hist.served < MaxRequests
  /\ req' = r
  /\ calls' = << >>

\* the response is out and the handler's frame is gone: the server idles
ResponseSent ==
  /\ pc = "done"
  /\ pc' = "idle"
  /\ req' = NoRequest
  /\ loc' = NoLocals
  /\ calls' = << >>
  /\ resp' = NoResponse
  /\ UNCHANGED hist

(***************************************************************************)
(* What clients send                                                       *)
(***************************************************************************)
ExtraArgs ==
  { << >>,
    << << ArgNamespace, Text(<< "n", "s" >>) >> >>,
    << << ArgQ, Text(<< "x", " ", "y" >>) >>, << ArgQ, Text(<< "z" >>) >> >> }
KindArgs == { << >>, << << ArgKind, KindA >> >>, << << ArgKind, << >> >> >> }
CursorArgs ==
  { << >>,
    << << ArgCursor, Text(<< "A" >>) >> >>,
    << << ArgCursor, Text(<< "Q", "2", "c", "=" >>) >> >> }
BrowseArgs == {e \o k \o c : e \in ExtraArgs, k \in KindArgs, c \in CursorArgs}

\* the target of a redirect response: its path and its parsed query
LocationPath(location) ==
  IF IndexOf(location, 63 (* ? *)) = 0 THEN location
  ELSE SubSeq(location, 1, IndexOf(location, 63 (* ? *)) - 1)
LocationArgs(location) ==
  IF IndexOf(location, 63 (* ? *)) = 0 THEN << >>
  ELSE ParseQuery(SubSeq(location, IndexOf(location, 63 (* ? *)) + 1, Len(location)))

\* GET requests to ProjectView: typed by the user, the target of the
\* redirect just answered, or the next page of the page just rendered (its
\* next_cursor sent back as the cursor parameter)
FollowedRedirect ==
  IF resp.kind = "redirect" /\ LocationPath(resp.location) = ProjectPath
  THEN {[Request("ProjectView", "GET", ProjectPath, LocationArgs(resp.location))
           EXCEPT !.via = resp.why]}
  ELSE {}
NextPageArgs ==
  (IF resp.context.current_kind.t = "str"
   THEN << << ArgKind, resp.context.current_kind.str >> >> ELSE << >>)
  \o << << ArgCursor, resp.context.next_cursor.str >> >>
NextPage ==
  IF resp.kind = "html" /\ resp.template = "project_dashboard.html"
  THEN {[Request("ProjectView", "GET", ProjectPath, NextPageArgs)
           EXCEPT !.sent_back = resp.issued]}
  ELSE {}
ProjectViewGetRequests ==
  {Request("ProjectView", "GET", ProjectPath, a) : a \in BrowseArgs}
  \cup FollowedRedirect \cup NextPage

(***************************************************************************)
(* ProjectView.get                                                         *)
(***************************************************************************)
\* lines 40-45: the request arrives, the cursor parameter is decoded
ProjectView_get_begin ==
  \E r \in ProjectViewGetRequests :
    /\ Accept(r)
    /\ hist' = [hist EXCEPT !.served = @ + 1]
    /\ LET cursor == DecodeCursor(ArgsGetDefault(r.args, ArgCursor, PyStr(<< >>))) IN
       IF IsRaise(cursor)
       THEN Raised(cursor.exc, "cursor") /\ loc' = NoLocals
       ELSE /\ loc' = [NoLocals EXCEPT !.cursor = cursor]
            /\ pc' = "ProjectView.get:47"
            /\ resp' = NoResponse
    /\ UNCHANGED presenter

\* line 47
ProjectView_get_current_namespace ==
  /\ pc = "ProjectView.get:47"
  /\ \/ /\ RepositoryReturns("current_namespace", << >>, "ProjectView.get:48")
        /\ UNCHANGED << req, loc, resp >>
     \/ RepositoryRaises("current_namespace", << >>)
  /\ UNCHANGED presenter

\* line 48
ProjectView_get_fetch_namespaces ==
  /\ pc = "ProjectView.get:48"
  /\ \/ /\ RepositoryReturns("fetch_namespaces", << >>, "ProjectView.get:49")
        /\ UNCHANGED << req, loc, resp >>
     \/ RepositoryRaises("fetch_namespaces", << >>)
  /\ UNCHANGED presenter

\* line 49
ProjectView_get_fetch_kinds ==
  /\ pc = "ProjectView.get:49"
  /\ \/ \E kinds \in KindLists :
          /\ RepositoryReturns("fetch_kinds", << >>, "ProjectView.get:50")
          /\ loc' = [loc EXCEPT !.kinds = kinds]
          /\ UNCHANGED << req, resp >>
     \/ RepositoryRaises("fetch_kinds", << >>)
  /\ UNCHANGED presenter

\* line 50
ProjectView_get_fetch_parent_properties ==
  /\ pc = "ProjectView.get:50"
  /\ \/ \E properties_by_kind \in PropertyMaps :
          /\ RepositoryReturns("fetch_parent_properties", << >>, "ProjectView.get:52")
          /\ loc' = [loc EXCEPT !.properties_by_kind = properties_by_kind]
          /\ UNCHANGED << req, resp >>
     \/ RepositoryRaises("fetch_parent_properties", << >>)
  /\ UNCHANGED presenter

\* lines 52-56: no kind asked for and the store has kinds: redirect to the
\* first kind
ProjectView_get_redirect ==
  /\ pc = "ProjectView.get:52"
  /\ ArgsGet(req.args, ArgKind) = PyNone /\ Len(loc.kinds) > 0
  /\ Responds([kind |-> "redirect", why |-> "default_kind",
               location |-> ProjectView_build_redirect_path(
                              req.path, req.args,
                              << << ArgKind, loc.kinds[1] >> >>)])
  /\ UNCHANGED << req, loc, calls, hist >>
  /\ UNCHANGED presenter

\* lines 58-77: the page of entities is fetched and rendered
ProjectView_get_fetch_entities ==
  /\ pc = "ProjectView.get:52"
  /\ ~(ArgsGet(req.args, ArgKind) = PyNone /\ Len(loc.kinds) > 0)
  /\ LET current_kind == ArgsGet(req.args, ArgKind)
         arg == [kind |-> current_kind, limit |-> Limit, cursor |-> loc.cursor]
     IN \/ \E entities \in EntityLists, next_cursor \in CursorBytes :
             /\ calls' = Append(calls, Call("fetch_entities", arg, TRUE))
             /\ Responds(
                  [kind |-> "html", template |-> "project_dashboard.html",
                   issued |-> next_cursor,
                   context |->
                     [kinds |-> loc.kinds,
                      current_kind |-> current_kind,
                      current_kind_properties |->
                        DictGetList(loc.properties_by_kind, current_kind),
                      entities |-> entities,
                      has_entities |-> Len(entities) > 0,
                      next_cursor |-> EncodeCursor(next_cursor)]])
             /\ UNCHANGED << req, loc, hist >>
        \/ RepositoryRaises("fetch_entities", arg)
  /\ UNCHANGED presenter

(***************************************************************************)
(* ProjectView.post and ProjectView._delete_entity                         *)
(***************************************************************************)
PostArgs ==
  { << >>, << << ArgKind, KindA >> >>,
    << << ArgKind, KindBc >>, << ArgNamespace, Text(<< "n", "s" >>) >> >> }
PostForms ==
  {[action |-> ActionDelete, key |-> k] : k \in KeyTokens \cup {PyNone}}
  \cup {[action |-> a, key |-> k] :
          a \in {PyNone, ActionDeleteAll, ActionOther},
          k \in {PyNone, EncodeKeyToken(PathNegative)}}
ProjectViewPostRequests ==
  {[Request("ProjectView", "POST", ProjectPath, a) EXCEPT !.form = f] :
     a \in PostArgs, f \in PostForms}

\* a variant of the branch that takes "delete" for "delete_all"
PostBranchDeleteAllForDelete(action, serialized_key) ==
  IF action = ActionDelete /\ serialized_key # PyNone
  THEN "ProjectView.post:96"
  ELSE IF action = ActionDeleteAll THEN "ProjectView.post:96"
  ELSE "ProjectView.post:98"
\* a variant of the branch that does not ask for the action
PostBranchAnyAction(action, serialized_key) ==
  IF serialized_key # PyNone
  THEN "ProjectView._delete_entity:101"
  ELSE IF action = ActionDeleteAll THEN "ProjectView.post:96"
  ELSE "ProjectView.post:98"

\* the branch of lines 90 and 95: where post goes on after reading the form
PostBranch(action, serialized_key) ==
  IF action = ActionDelete /\ serialized_key # PyNone
  THEN "ProjectView._delete_entity:101"
  ELSE IF action = ActionDeleteAll THEN "ProjectView.post:96"
  ELSE "ProjectView.post:98"

\* lines 80-90: the request arrives, the form is read
ProjectView_post_begin ==
  \E r \in ProjectViewPostRequests :
    /\ Accept(r)
    /\ LET branch == PostBranch(r.form.action, r.form.key) IN
       /\ pc' = branch
       /\ hist' = [hist EXCEPT
             !.served = @ + 1,
             !.posts_delete =
                @ + (IF r.form.action = ActionDelete /\ r.form.key # PyNone
                     THEN 1 ELSE 0),
             !.posts_delete_all =
                @ + (IF r.form.action = ActionDeleteAll THEN 1 ELSE 0)]
    /\ loc' = [NoLocals EXCEPT !.serialized_key = r.form.key]
    /\ resp' = NoResponse
    /\ UNCHANGED presenter

\* line 101: key_path = json.loads(base64.b64decode(serialized_key))
ProjectView_delete_entity_decode ==
  /\ pc = "ProjectView._delete_entity:101"
  /\ LET key_path == DecodeKeyToken(loc.serialized_key) IN
     IF IsRaise(key_path)
     THEN Raised(key_path.exc, "key") /\ UNCHANGED loc
     ELSE /\ loc' = [loc EXCEPT !.key_path = key_path]
          /\ pc' = "ProjectView._delete_entity:102"
          /\ UNCHANGED resp
  /\ UNCHANGED << req, calls, hist >>
  /\ UNCHANGED presenter

\* line 102: key = repository.build_key_by_flat_path(key_path=key_path)
ProjectView_delete_entity_build_key ==
  /\ pc = "ProjectView._delete_entity:102"
  /\ \/ /\ RepositoryReturns("build_key_by_flat_path", loc.key_path,
                             "ProjectView._delete_entity:103")
        /\ loc' = [loc EXCEPT !.key = PyKey(ProjectName, loc.key_path)]
        /\ UNCHANGED << req, resp >>
     \/ RepositoryRaises("build_key_by_flat_path", loc.key_path)
  /\ UNCHANGED presenter

\* line 103: repository.delete(key)
ProjectView_delete_entity_delete ==
  /\ pc = "ProjectView._delete_entity:103"
  /\ \/ /\ RepositoryReturns("delete", loc.key, "ProjectView.post:98")
        /\ UNCHANGED << req, loc, resp >>
     \/ RepositoryRaises("delete", loc.key)
  /\ UNCHANGED presenter

\* line 96: repository.delete_all(kind=current_kind)
ProjectView_post_delete_all ==
  /\ pc = "ProjectView.post:96"
  /\ \/ /\ RepositoryReturns("delete_all", ArgsGet(req.args, ArgKind),
                             "ProjectView.post:98")
        /\ UNCHANGED << req, loc, resp >>
     \/ RepositoryRaises("delete_all", ArgsGet(req.args, ArgKind))
  /\ UNCHANGED presenter

\* line 98: the redirect back to the page, with the time as parameter t
ProjectView_post_redirect ==
  /\ pc = "ProjectView.post:98"
  /\ \E now \in Timestamps :
       Responds([kind |-> "redirect", why |-> "post",
                 location |-> ProjectView_build_redirect_path(
                                req.path, req.args, << << ArgT, now >> >>)])
  /\ UNCHANGED << req, loc, calls, hist >>
  /\ UNCHANGED presenter

(***************************************************************************)
(* DashboardView.get and ProjectListAPIView.get                            *)
(***************************************************************************)
DashboardRequests ==
  {Request("DashboardView", "GET", DashboardPath, a) :
     a \in { << >>, << << ArgProjectName, << >> >> >>,
             << << ArgProjectName, ProjectName >> >> }}
\* os.environ's GOOGLE_CLOUD_PROJECT: unset (None), empty or a project
Environments == {PyNone, PyStr(<< >>), PyStr(ProjectName)}

\* lines 19-27
DashboardView_get ==
  \E r \in DashboardRequests, env \in Environments :
    /\ Accept(r)
    /\ hist' = [hist EXCEPT !.served = @ + 1]
    /\ loc' = NoLocals
    /\ LET project_name == ArgsGet(r.args, ArgProjectName) IN
       IF project_name # PyNone /\ Len(project_name.str) > 0
       THEN Responds([kind |-> "redirect", why |-> "dashboard",
                      location |-> DashboardPath
                        \o Text(<< "/", "p", "r", "o", "j", "e", "c", "t", "s", "/" >>)
                        \o project_name.str])
       ELSE Responds([kind |-> "html", template |-> "dashboard.html",
                      context |-> [project_name |->
                                     IF env = PyNone THEN PyStr(<< >>) ELSE env]])
    /\ UNCHANGED presenter

\* lines 280-290: os.environ['GOOGLE_CLOUD_PROJECT'] raises KeyError when
\* the variable is unset
ProjectListAPIView_get ==
  \E env \in Environments :
    /\ Accept(Request("ProjectListAPIView", "GET", << >>, << >>))
    /\ hist' = [hist EXCEPT !.served = @ + 1]
    /\ loc' = NoLocals
    /\ IF env = PyNone THEN Raised("KeyError", "environ")
       ELSE Responds([kind |-> "json",
                      body |-> [projectResult |-> [project_name |-> env]]])
    /\ UNCHANGED presenter

(***************************************************************************)
(* EntityView.get                                                          *)
(***************************************************************************)
EntityViewPath ==
  ProjectPath \o Text(<< "/", "v", "i", "e", "w", "_", "e", "n", "t", "i", "t", "y" >>)
EntityViewRequests ==
  {Request("EntityView", "GET", EntityViewPath, a) :
     a \in { << >> } \cup {<< << ArgKey, k.str >> >> : k \in KeyTokens}}

\* the text str(x) of a key or an entity
StrOf(x) == [t |-> "str", of |-> x]

\* lines 108-115: the request arrives, the key parameter is decoded
EntityView_get_begin ==
  \E r \in EntityViewRequests :
    /\ Accept(r)
    /\ hist' = [hist EXCEPT !.served = @ + 1]
    /\ LET serialized_key == ArgsGet(r.args, ArgKey)
           key_path == DecodeKeyToken(ArgsGet(r.args, ArgKey))
       IN
       IF IsRaise(key_path)
       THEN /\ Raised(key_path.exc, "key")
            /\ loc' = [NoLocals EXCEPT !.serialized_key = serialized_key]
       ELSE /\ loc' = [NoLocals EXCEPT !.serialized_key = serialized_key,
                                       !.key_path = key_path]
            /\ pc' = "EntityView.get:116"
            /\ resp' = NoResponse
    /\ UNCHANGED presenter

\* line 116
EntityView_get_build_key ==
  /\ pc = "EntityView.get:116"
  /\ \/ /\ RepositoryReturns("build_key_by_flat_path", loc.key_path,
                             "EntityView.get:117")
        /\ loc' = [loc EXCEPT !.key = PyKey(ProjectName, loc.key_path)]
        /\ UNCHANGED << req, resp >>
     \/ RepositoryRaises("build_key_by_flat_path", loc.key_path)
  /\ UNCHANGED presenter

\* lines 117-123
EntityView_get_fetch_entity ==
  /\ pc = "EntityView.get:117"
  /\ \/ \E entity \in Entities :
          /\ calls' = Append(calls, Call("fetch_entity", loc.key, TRUE))
          /\ loc' = [loc EXCEPT !.entity = entity]
          /\ Responds([kind |-> "json",
                       body |-> [project_name |-> ProjectName,
                                 key |-> StrOf(loc.key),
                                 entity |-> StrOf(entity)]])
          /\ UNCHANGED << req, hist >>
     \/ RepositoryRaises("fetch_entity", loc.key)
  /\ UNCHANGED presenter

(***************************************************************************)
(* ProjectAPIView.get                                                      *)
(***************************************************************************)
\* the next page asked of the API: the next_cursor of the page just
\* rendered sent back as the cursor parameter
NextPageAPI ==
  IF resp.kind = "html" /\ resp.template = "project_dashboard.html"
  THEN {[Request("ProjectAPIView", "GET", << >>,
                 << << ArgCursor, resp.context.next_cursor.str >> >>)
           EXCEPT !.kind = PyStr(k), !.sent_back = resp.issued] : k \in Kinds}
  ELSE {}
ProjectAPIViewRequests ==
  {[Request("ProjectAPIView", "GET", << >>, c) EXCEPT !.kind = PyStr(k)] :
     c \in CursorArgs, k \in Kinds}
  \cup NextPageAPI

\* lines 188-190: the JSON of each entity, or the exception one of them
\* raises
ProjectAPIView_entities_array(entities, properties) ==
  LET built == [i \in 1..Len(entities) |->
                  ProjectAPIView_build_entity_json(entities[i], properties)]
  IN IF \E i \in 1..Len(built) : IsRaise(built[i])
     THEN built[CHOOSE i \in 1..Len(built) :
                  IsRaise(built[i]) /\ \A j \in 1..(i - 1) : ~IsRaise(built[j])]
     ELSE PyList(built)

\* lines 175-176: the request arrives, the cursor parameter is decoded
ProjectAPIView_get_begin ==
  \E r \in ProjectAPIViewRequests :
    /\ Accept(r)
    /\ hist' = [hist EXCEPT !.served = @ + 1]
    /\ LET cursor == DecodeCursor(ArgsGetDefault(r.args, ArgCursor, PyStr(<< >>))) IN
       IF IsRaise(cursor)
       THEN Raised(cursor.exc, "cursor") /\ loc' = NoLocals
       ELSE /\ loc' = [NoLocals EXCEPT !.cursor = cursor]
            /\ pc' = "ProjectAPIView.get:178"
            /\ resp' = NoResponse
    /\ UNCHANGED presenter

\* line 178
ProjectAPIView_get_fetch_parent_properties ==
  /\ pc = "ProjectAPIView.get:178"
  /\ \/ \E properties_by_kind \in PropertyMaps :
          /\ RepositoryReturns("fetch_parent_properties", << >>,
                               "ProjectAPIView.get:182")
          /\ loc' = [loc EXCEPT !.properties_by_kind = properties_by_kind]
          /\ UNCHANGED << req, resp >>
     \/ RepositoryRaises("fetch_parent_properties", << >>)
  /\ UNCHANGED presenter

\* lines 179-195
ProjectAPIView_get_fetch_entities ==
  /\ pc = "ProjectAPIView.get:182"
  /\ LET current_kind_properties == DictGetList(loc.properties_by_kind, req.kind)
         arg == [kind |-> req.kind, limit |-> Limit, cursor |-> loc.cursor]
     IN \/ \E entities \in EntityLists, next_cursor \in CursorBytes :
             /\ calls' = Append(calls, Call("fetch_entities", arg, TRUE))
             /\ LET entities_array ==
                      ProjectAPIView_entities_array(entities, current_kind_properties)
                IN IF IsRaise(entities_array)
                   THEN Raised(entities_array.exc, "_build_entity_json")
                   ELSE Responds([kind |-> "json",
                                  body |-> [entityResults |-> entities_array.list]])
             /\ UNCHANGED << req, loc, hist >>
        \/ RepositoryRaises("fetch_entities", arg)
  /\ UNCHANGED presenter

(***************************************************************************)
(* EntityAPIView.get                                                       *)
(***************************************************************************)
\* the tokens the route's <string:url_safe_key> matches: not empty, no "/"
RoutableTokens ==
  {k \in KeyTokens : Len(k.str) > 0 /\ \A i \in 1..Len(k.str) : k.str[i] # 47 (* / *)}
EntityAPIViewRequests ==
  {[Request("EntityAPIView", "GET", << >>, << >>)
      EXCEPT !.kind = PyStr(k), !.url_safe_key = u] :
     k \in Kinds, u \in RoutableTokens}

\* lines 247-248: the request arrives, url_safe_key is decoded
EntityAPIView_get_begin ==
  \E r \in EntityAPIViewRequests :
    /\ Accept(r)
    /\ hist' = [hist EXCEPT !.served = @ + 1]
    /\ LET key_path == DecodeKeyToken(r.url_safe_key) IN
       IF IsRaise(key_path)
       THEN /\ Raised(key_path.exc, "key")
            /\ loc' = [NoLocals EXCEPT !.serialized_key = r.url_safe_key]
       ELSE /\ loc' = [NoLocals EXCEPT !.serialized_key = r.url_safe_key,
                                       !.key_path = key_path]
            /\ pc' = "EntityAPIView.get:249"
            /\ resp' = NoResponse
    /\ UNCHANGED presenter

\* line 249
EntityAPIView_get_build_key ==
  /\ pc = "EntityAPIView.get:249"
  /\ \/ /\ RepositoryReturns("build_key_by_flat_path", loc.key_path,
                             "EntityAPIView.get:250")
        /\ loc' = [loc EXCEPT !.key = PyKey(ProjectName, loc.key_path)]
        /\ UNCHANGED << req, resp >>
     \/ RepositoryRaises("build_key_by_flat_path", loc.key_path)
  /\ UNCHANGED presenter

\* line 250
EntityAPIView_get_fetch_entity ==
  /\ pc = "EntityAPIView.get:250"
  /\ \/ \E entity \in Entities :
          /\ RepositoryReturns("fetch_entity", loc.key, "EntityAPIView.get:252")
          /\ loc' = [loc EXCEPT !.entity = entity]
          /\ UNCHANGED << req, resp >>
     \/ RepositoryRaises("fetch_entity", loc.key)
  /\ UNCHANGED presenter

\* lines 252-258
EntityAPIView_get_fetch_parent_properties ==
  /\ pc = "EntityAPIView.get:252"
  /\ \/ \E properties_by_kind \in PropertyMaps :
          /\ calls' = Append(calls, Call("fetch_parent_properties", << >>, TRUE))
          /\ loc' = [loc EXCEPT !.properties_by_kind = properties_by_kind]
          /\ LET entity_json ==
                   EntityAPIView_build_entity_json(
                     loc.entity, DictGetList(properties_by_kind, req.kind))
             IN IF IsRaise(entity_json)
                THEN Raised(entity_json.exc, "_build_entity_json")
                ELSE Responds([kind |-> "json",
                               body |-> [entityResult |-> entity_json]])
          /\ UNCHANGED << req, hist >>
     \/ RepositoryRaises("fetch_parent_properties", << >>)
  /\ UNCHANGED presenter

(***************************************************************************)
(* KindAPIView.get                                                         *)
(***************************************************************************)
\* the kinds of a dict in the order it iterates them (its insertion order,
\* given here as the order of the kinds' texts)
RECURSIVE DictKeys(_)
DictKeys(m) ==
  IF DOMAIN m = {} THEN << >>
  ELSE LET k == CHOOSE x \in DOMAIN m :
                  \A y \in DOMAIN m : Len(x) <= Len(y)
       IN << k >> \o DictKeys([x \in DOMAIN m \ {k} |-> m[x]])

\* line 263: the request arrives
KindAPIView_get_begin ==
  /\ Accept(Request("KindAPIView", "GET", << >>, << >>))
  /\ hist' = [hist EXCEPT !.served = @ + 1]
  /\ loc' = NoLocals
  /\ pc' = "KindAPIView.get:264"
  /\ resp' = NoResponse
  /\ UNCHANGED presenter

\* lines 264-276
KindAPIView_get_fetch_parent_properties ==
  /\ pc = "KindAPIView.get:264"
  /\ \/ \E properties_by_kind \in PropertyMaps :
          /\ calls' = Append(calls, Call("fetch_parent_properties", << >>, TRUE))
          /\ loc' = [loc EXCEPT !.properties_by_kind = properties_by_kind]
          /\ LET kinds == DictKeys(properties_by_kind) IN
             Responds([kind |-> "json",
                       body |-> [kindResults |->
                         [i \in 1..Len(kinds) |->
                            [kind |-> kinds[i],
                             indexed_properties |->
                               [j \in 1..Len(properties_by_kind[kinds[i]]) |->
                                  [property_name |-> properties_by_kind[kinds[i]][j]]]]]]])
          /\ UNCHANGED << req, hist >>
     \/ RepositoryRaises("fetch_parent_properties", << >>)
  /\ UNCHANGED presenter

(***************************************************************************)
(* The server: the views register_views routes, one request at a time      *)
(***************************************************************************)
Next ==
  \/ DashboardView_get
  \/ ProjectView_get_begin
  \/ ProjectView_get_current_namespace
  \/ ProjectView_get_fetch_namespaces
  \/ ProjectView_get_fetch_kinds
  \/ ProjectView_get_fetch_parent_properties
  \/ ProjectView_get_redirect
  \/ ProjectView_get_fetch_entities
  \/ ProjectView_post_begin
  \/ ProjectView_delete_entity_decode
  \/ ProjectView_delete_entity_build_key
  \/ ProjectView_delete_entity_delete
  \/ ProjectView_post_delete_all
  \/ ProjectView_post_redirect
  \/ EntityView_get_begin
  \/ EntityView_get_build_key
  \/ EntityView_get_fetch_entity
  \/ ProjectAPIView_get_begin
  \/ ProjectAPIView_get_fetch_parent_properties
  \/ ProjectAPIView_get_fetch_entities
  \/ EntityAPIView_get_begin
  \/ EntityAPIView_get_build_key
  \/ EntityAPIView_get_fetch_entity
  \/ EntityAPIView_get_fetch_parent_properties
  \/ KindAPIView_get_begin
  \/ KindAPIView_get_fetch_parent_properties
  \/ ProjectListAPIView_get
  \/ (ResponseSent /\ UNCHANGED presenter)

Spec == Init /\ [][Next]_vars

(***************************************************************************)
(* The presenter on its own: _property_type_checker and _build_entity_json *)
(* applied to the values and the entities a store can hold                 *)
(***************************************************************************)
\* the longest list of property names handed to _build_entity_json
MaxNames == 2

PropertyNames == {"name", "parentKey", "paid", "n", "at"}
NameLists == UNION {[1..n -> PropertyNames] : n \in 0..MaxNames}

\* lines 127-141 applied to a value: subject is the call, outcome what it
\* returned
ProjectAPIView_property_type_checker_applied ==
  \E prop \in PropertyValues :
    /\ subject' = [op |-> "_property_type_checker", view |-> "ProjectAPIView",
                   input |-> prop]
    /\ outcome' = ProjectAPIView_property_type_checker(prop)
    /\ UNCHANGED server

\* lines 199-213 applied to a value
EntityAPIView_property_type_checker_applied ==
  \E prop \in PropertyValues :
    /\ subject' = [op |-> "_property_type_checker", view |-> "EntityAPIView",
                   input |-> prop]
    /\ outcome' = EntityAPIView_property_type_checker(prop)
    /\ UNCHANGED server

\* lines 143-172 applied to an entity and a list of property names
ProjectAPIView_build_entity_json_applied ==
  \E entity \in Entities, properties \in NameLists :
    /\ subject' = [op |-> "_build_entity_json", view |-> "ProjectAPIView",
                   input |-> [entity |-> entity, properties |-> properties]]
    /\ outcome' = ProjectAPIView_build_entity_json(entity, properties)
    /\ UNCHANGED server

\* lines 215-244 applied to an entity and a list of property names
EntityAPIView_build_entity_json_applied ==
  \E entity \in Entities, properties \in NameLists :
    /\ subject' = [op |-> "_build_entity_json", view |-> "EntityAPIView",
                   input |-> [entity |-> entity, properties |-> properties]]
    /\ outcome' = EntityAPIView_build_entity_json(entity, properties)
    /\ UNCHANGED server

NextPresenter ==
  \/ ProjectAPIView_property_type_checker_applied
  \/ EntityAPIView_property_type_checker_applied
  \/ ProjectAPIView_build_entity_json_applied
  \/ EntityAPIView_build_entity_json_applied

SpecPresenter == Init /\ [][NextPresenter]_vars

(***************************************************************************)
(* Properties                                                              *)
(***************************************************************************)
\* the number of calls of op in the request at hand
NumCalls(op) == Cardinality({i \in 1..Len(calls) : calls[i].op = op})

\* the request at hand is a POST with action "delete" and a key
IsDeletePost ==
  /\ req.view = "ProjectView" /\ req.method = "POST"
  /\ req.form.action = ActionDelete /\ req.form.key # PyNone
\* the request at hand is a POST with action "delete_all"
IsDeleteAllPost ==
  /\ req.view = "ProjectView" /\ req.method = "POST"
  /\ req.form.action = ActionDeleteAll

\* the positions of the three handlers right after their decode step
AfterDecode ==
  {"ProjectView._delete_entity:102", "EntityView.get:116", "EntityAPIView.get:249"}

\* C1: Key token round trip.  For every well-formed ancestor path P, a
\* handler whose decode step json.loads(base64.b64decode(token)) has run on
\* the token that encodes P holds a key_path equal to P (an integer
\* identifier an int, a string identifier a str), and the decode step did
\* not fail on such a token.
C1_KeyTokenRoundTrip ==
  \A path \in Paths :
    /\ IsWellFormedPath(path)
    /\ loc.serialized_key = EncodeKeyToken(path) =>
         /\ pc \in AfterDecode => loc.key_path = path
         /\ ~(resp.kind = "error" /\ resp.at = "key")

\* EntityAPIView.get has decoded the token of [["Account", 42], ["Order", "abc"]]
C1_Witness ==
  /\ pc = "EntityAPIView.get:249"
  /\ loc.serialized_key = EncodeKeyToken(PathAccountOrder)
  /\ loc.key_path = PathAccountOrder
  /\ loc.key_path.list[1].list[2] = PyInt(42)
  /\ loc.key_path.list[2].list[2] = PyStr(Text(<< "a", "b", "c" >>))

\* C2: A token that does not encode a well-formed path is rejected by the
\* decode step of every handler that decodes one: no key_path that is not a
\* non-empty array of [kind, id_or_name] pairs comes out of the decode step,
\* and build_key_by_flat_path, fetch_entity and delete are never invoked
\* with such a value.
C2_MalformedTokenRejected ==
  /\ loc.key_path # PyNone => IsWellFormedPath(loc.key_path)
  /\ \A i \in 1..Len(calls) :
       /\ calls[i].op = "build_key_by_flat_path" => IsWellFormedPath(calls[i].arg)
       /\ calls[i].op \in {"fetch_entity", "delete"} =>
            IsWellFormedPath(calls[i].arg.key.path)

\* the shape checks of _property_type_checker in their order, each with
\* its tag
ShapeChecks ==
  << << "str", "string" >>, << "int", "integer" >>, << "float", "float" >>,
     << "bool", "boolean" >>, << "datetime", "timestamp" >>, << "Key", "key" >> >>
TypeTags == {ShapeChecks[i][2] : i \in 1..Len(ShapeChecks)} \cup {"null"}
\* the tag of the first shape check prop satisfies, "null" when there is none
FirstSatisfied(prop) ==
  IF \E i \in 1..Len(ShapeChecks) : IsInstance(prop, ShapeChecks[i][1])
  THEN ShapeChecks[CHOOSE i \in 1..Len(ShapeChecks) :
                     /\ IsInstance(prop, ShapeChecks[i][1])
                     /\ \A j \in 1..(i - 1) : ~IsInstance(prop, ShapeChecks[j][1])][2]
  ELSE "null"

\* C3: For every property value both copies of _property_type_checker
\* return the tag of the first shape check the value satisfies in the order
\* string, integer, float, boolean, timestamp, key, and "null" when it
\* satisfies none (None included); a tag always comes back (no exception).
\* A value that satisfies both the integer and the boolean check is tagged
\* "integer", the earlier of the two.
C3_FirstShapeCheckWins ==
  subject.op = "_property_type_checker" =>
    /\ outcome \in TypeTags
    /\ outcome = FirstSatisfied(subject.input)
    /\ subject.input = PyNone => outcome = "null"
    /\ (IsInstance(subject.input, "int") /\ IsInstance(subject.input, "bool")) =>
         outcome = "integer"

\* EntityAPIView's copy has classified True, which is an int and a bool
C3_Witness ==
  /\ subject.op = "_property_type_checker"
  /\ subject.view = "EntityAPIView"
  /\ subject.input = PyBool(TRUE)
  /\ outcome = "integer"

\* the copy of _property_type_checker of the view
CheckerOf(view, prop) ==
  IF view = "ProjectAPIView" THEN ProjectAPIView_property_type_checker(prop)
  ELSE EntityAPIView_property_type_checker(prop)

\* C4: _property_type_checker returns one of the seven tags string, integer,
\* float, boolean, timestamp, key, null and nothing else, and each of the
\* seven is what it returns for at least one value an entity can hold; the
\* tag of a boolean true/false is "boolean".
C4_SevenTagsAllReturned ==
  subject.op = "_property_type_checker" =>
    /\ outcome \in TypeTags
    /\ subject.input.t = "bool" => outcome = "boolean"
    /\ \A tag \in TypeTags :
         \E prop \in PropertyValues : CheckerOf(subject.view, prop) = tag

\* C5: For names the entity holds, _build_entity_json(entity, properties)
\* returns an object whose properties array has one entry per name, in the
\* order of the names: entry i has property_name = the i-th name, value_type
\* = the tag of the entity's value for it, value = the key's path for the
\* tag "key" and the stored value itself otherwise, index = true; the key is
\* rendered as partitionId.projectId and path.  For ["name", "parentKey"]
\* with a string and a key the array has length 2, the tags "string" and
\* "key", and the second value is the parent key's path.
C5_BuildEntityJsonShape ==
  (/\ subject.op = "_build_entity_json"
   /\ \A i \in 1..Len(subject.input.properties) :
        subject.input.properties[i] \in DOMAIN subject.input.entity.props) =>
    LET entity == subject.input.entity
        properties == subject.input.properties
    IN /\ outcome.t = "dict"
       /\ outcome.dict.entity.key =
            [partitionId |-> [projectId |-> entity.key.key.project],
             path |-> entity.key.key.path]
       /\ Len(outcome.dict.entity.properties) = Len(properties)
       /\ \A i \in 1..Len(properties) :
            LET entry == outcome.dict.entity.properties[i]
                stored == entity.props[properties[i]]
            IN /\ entry.property_name = properties[i]
               /\ entry.value_type = CheckerOf(subject.view, stored)
               /\ entry.value = (IF entry.value_type = "key"
                                 THEN stored.key.path ELSE stored)
               /\ entry.index = TRUE
       /\ (entity = EntityOrder /\ properties = << "name", "parentKey" >>) =>
            /\ Len(outcome.dict.entity.properties) = 2
            /\ outcome.dict.entity.properties[1].value_type = "string"
            /\ outcome.dict.entity.properties[2].value_type = "key"
            /\ outcome.dict.entity.properties[2].value = ValueParentKey.key.path

\* ProjectAPIView's builder has rendered ["name", "parentKey"] of an entity
\* whose name is a string and whose parentKey is a key
C5_Witness ==
  /\ subject.op = "_build_entity_json"
  /\ subject.view = "ProjectAPIView"
  /\ subject.input.entity = EntityOrder
  /\ subject.input.properties = << "name", "parentKey" >>
  /\ Len(outcome.dict.entity.properties) = 2

\* C6: Delete requests are pass-through.  A POST with action "delete" and a
\* key token has, once handled, issued exactly one delete call and no
\* delete_all call; a POST with action "delete_all" exactly one delete_all
\* call and no delete call.
C6_ExactlyOneDeleteCall ==
  /\ (IsDeletePost /\ pc = "done") =>
       NumCalls("delete") = 1 /\ NumCalls("delete_all") = 0
  /\ (IsDeleteAllPost /\ pc = "done") =>
       NumCalls("delete_all") = 1 /\ NumCalls("delete") = 0

\* C6 (as amended): a POST with action "delete" and a key token calls delete
\* at most once, and exactly once, on the key built from the decoded token,
\* as soon as that key is built and line 103 has run (no delete call when
\* the token does not decode or build_key_by_flat_path fails); it never
\* calls delete_all and makes no other call than build_key_by_flat_path and
\* delete.  A POST with action "delete_all" calls delete_all exactly once,
\* for the kind named in the request, never delete, and makes no other call.
C6_DeletePassThrough ==
  /\ IsDeletePost =>
       /\ NumCalls("delete_all") = 0
       /\ NumCalls("delete") <= 1
       /\ \A i \in 1..Len(calls) :
            calls[i].op \in {"build_key_by_flat_path", "delete"}
       /\ (loc.key # PyNone /\ pc # "ProjectView._delete_entity:103") =>
            /\ NumCalls("delete") = 1
            /\ calls[Len(calls)].op = "delete"
            /\ calls[Len(calls)].arg =
                 PyKey(ProjectName, DecodeKeyToken(req.form.key))
  /\ IsDeleteAllPost =>
       /\ NumCalls("delete") = 0
       /\ \A i \in 1..Len(calls) : calls[i].op = "delete_all"
       /\ pc # "ProjectView.post:96" =>
            /\ Len(calls) = 1
            /\ calls[1].arg = ArgsGet(req.args, ArgKind)

\* a delete POST has been answered with the redirect after its one delete
C6_Witness ==
  /\ IsDeletePost
  /\ pc = "done"
  /\ resp.kind = "redirect"
  /\ NumCalls("delete") = 1
  /\ calls[Len(calls)].arg = PyKey(ProjectName, PathAccountOrder)

\* C7: A repository failure propagates directly.  A repository call that
\* failed is the last call of its request (it is not repeated and no call
\* follows it), and the request has ended with that very failure, not with a
\* page, a JSON body or a redirect.  In a delete request in which
\* build_key_by_flat_path failed, delete is not called.
C7_RepositoryFailurePropagates ==
  /\ \A i \in 1..Len(calls) :
       ~calls[i].ok =>
         /\ i = Len(calls)
         /\ pc = "done"
         /\ resp = [kind |-> "error", exc |-> calls[i].exc, at |-> calls[i].op]
  /\ (/\ IsDeletePost
      /\ \E i \in 1..Len(calls) :
           calls[i].op = "build_key_by_flat_path" /\ ~calls[i].ok) =>
       NumCalls("delete") = 0

\* build_key_by_flat_path has failed in a delete request
C7_Witness ==
  /\ IsDeletePost
  /\ Len(calls) = 1
  /\ calls[1].op = "build_key_by_flat_path"
  /\ ~calls[1].ok
  /\ resp.kind = "error"

\* C8: The pagination cursor is passed through unmodified.  In a GET that
\* sends back the next_cursor of the page just rendered, the cursor
\* parameter decodes and fetch_entities is called with a cursor equal to the
\* next_cursor c the repository had returned; a GET without a cursor
\* parameter calls fetch_entities with the empty cursor.
C8_CursorPassedThrough ==
  /\ req.sent_back # PyNone =>
       /\ ~(resp.kind = "error" /\ resp.at = "cursor")
       /\ \A i \in 1..Len(calls) :
            calls[i].op = "fetch_entities" =>
              calls[i].arg.cursor.str = req.sent_back.bytes
  /\ (req.view \in {"ProjectView", "ProjectAPIView"} /\ req.method = "GET"
      /\ ~HasArg(req.args, ArgCursor)) =>
       \A i \in 1..Len(calls) :
         calls[i].op = "fetch_entities" => calls[i].arg.cursor = PyStr(<< >>)

\* what C9 says of each request: no GET and no POST other than a delete
\* POST calls delete, none other than a delete_all POST calls delete_all,
\* and a POST that is neither makes no call and answers with the redirect
OnlyDeleteRequestsCallDelete ==
  /\ ~IsDeletePost => NumCalls("delete") = 0
  /\ ~IsDeleteAllPost => NumCalls("delete_all") = 0
  /\ (/\ req.view = "ProjectView" /\ req.method = "POST"
      /\ ~IsDeletePost /\ ~IsDeleteAllPost) =>
       /\ calls = << >>
       /\ pc = "done" => resp.kind = "redirect"

\* C9: Only explicit delete requests mutate the store: delete and delete_all
\* are called by no GET handler and by no POST whose action is neither
\* "delete" with a key nor "delete_all", and such a POST still answers with
\* the redirect.  Between requests the number of delete calls equals the
\* number of POSTs with action "delete" and a key, and the number of
\* delete_all calls the number of POSTs with action "delete_all".
C9_DeleteCallsEqualDeletePosts ==
  /\ OnlyDeleteRequestsCallDelete
  /\ pc \in {"idle", "done"} =>
       /\ hist.n_delete = hist.posts_delete
       /\ hist.n_delete_all = hist.posts_delete_all

\* C9 (as amended): as above, but the number of delete calls equals the
\* number of POSTs with action "delete" and a key in which the token decoded
\* and build_key_by_flat_path returned; it never exceeds the number of POSTs
\* with action "delete" and a key.
C9_DeleteCallsEqualBuiltDeletePosts ==
  /\ OnlyDeleteRequestsCallDelete
  /\ hist.n_delete <= hist.posts_delete
  /\ pc \in {"idle", "done"} =>
       /\ hist.n_delete = hist.posts_delete_built
       /\ hist.n_delete_all = hist.posts_delete_all

\* two delete POSTs have been handled, one of which got as far as delete
C9_Witness ==
  /\ pc = "done"
  /\ hist.posts_delete = 2
  /\ hist.posts_delete_built = 1
  /\ hist.n_delete = 1

\* the names of the parameters args holds
ArgNames(args) == {args[i][1] : i \in 1..Len(args)}

====
